---- MODULE Spec2Model ----
(***************************************************************************)
(* Comment threading of the post-comments service: the comments table with *)
(* its triggers (migrations 001 and 002), the comment repository and the   *)
(* comment service.  Every database statement is one atomic step (each     *)
(* statement runs in its own autocommit transaction, triggers included);   *)
(* a service call is a sequence of such steps and calls of different       *)
(* request handlers interleave freely.                                     *)
(***************************************************************************)
EXTENDS Integers, Sequences, FiniteSets, Bags, TLC

\* ---- bounds ----
NumProcs == 2
MaxComments == 3
NumPosts == 2
NumUsers == 2
MaxCalls == 3

CommentIds == 1..MaxComments
Posts == 1..NumPosts
Users == 1..NumUsers

\* SQL NULL / Go nil for an optional id
NULL == 0

VARIABLES
    comments,      \* table comments: stored id -> row
    postDeleted,   \* table posts: post id -> deleted_at IS NOT NULL
    userDeleted,   \* table users: user id -> deleted_at IS NOT NULL
    inflight,      \* the calls in progress (a bag): their locals and next statement
    ret,           \* what the last step returned to its caller (NoResult: the step returned nothing)
    createOk,      \* history: per parent id, CreateComment calls (replies) that returned a comment
    createLate,    \* history: per parent id, CreateComment calls that inserted and then returned an error
    deleteOk,      \* history: per comment id, DeleteComment calls that returned nil
    calls          \* requests received so far

vars == <<comments, postDeleted, userDeleted, inflight, ret, createOk, createLate, deleteOk, calls>>

stored == DOMAIN comments

\* the calls in progress, as a set
Running == BagToSet(inflight)

\* ---- locals of a call and return values ----
NoCall == [op |-> "none", pc |-> "idle", userID |-> 0, id |-> 0, postID |-> 0,
           parentID |-> NULL, path |-> <<>>, threadID |-> 0, content |-> NULL,
           createdAt |-> 0, limit |-> 0, offset |-> 0]

\* the fields a list response carries beside its items (gin.H of the list handlers)
NoEnvelope == [limit |-> 0, offset |-> 0, count |-> 0]

\* err: what the service returned ("none": the controller answered without
\* calling it); kind: what the controller answered; page: the ids of the
\* comments of a returned list, in the order returned; items: the same ids as
\* a set; envelope: the other fields of a list response; applied: the LIMIT
\* and OFFSET the list query ran with
NoResult == [op |-> "none", err |-> "none", kind |-> "none", id |-> 0, parentID |-> NULL,
             path |-> <<>>, threadID |-> 0, items |-> {}, page |-> <<>>,
             envelope |-> NoEnvelope, applied |-> <<0, 0>>]

\* ids held by calls that have built their comment (uuid.New()) and not yet returned
inFlightIds == {c.id : c \in {d \in Running : d.op = "create"}}

Least(S) == CHOOSE i \in S : \A j \in S : i <= j

\* uuid.New(): an id that no row and no other call holds; ids are opaque, the
\* least unused one stands for it
NewUUID == Least(CommentIds \ (stored \cup inFlightIds))

\* Ids of users, posts and comments are opaque.  A request that names a user or
\* a post occurring nowhere in the state is represented by the request that
\* names the least such id: the states the two lead to differ by a renaming of
\* ids only.  A request that names a comment id no row has is represented by
\* the one that names NoSuchComment, an id uuid.New() never returns; a request
\* that names a post id no row has by the one that names NoSuchPost.
UpToFirstUnused(all, used) ==
    used \cup (IF all \ used = {} THEN {} ELSE {Least(all \ used)})

KnownUsers == {comments[c].createdBy : c \in stored} \cup {c.userID : c \in Running}
              \cup {u \in Users : userDeleted[u]}
KnownPosts == {comments[c].postID : c \in stored} \cup {c.postID : c \in Running}
              \cup {p \in Posts : postDeleted[p]}

UserInputs == UpToFirstUnused(Users, KnownUsers \cap Users)
NoSuchPost == NumPosts + 1
PostInputs == UpToFirstUnused(Posts, KnownPosts \cap Posts) \cup {NoSuchPost}
NoSuchComment == MaxComments + 1
CommentInputs == stored \cup {NoSuchComment}

\* <<limit, offset>> of a list request (0: the parameter is absent or zero):
\* the default page, a page of one after the first row, a negative limit, a
\* negative offset, and a limit above the maximum of 100
QueryInputs == {<<0, 0>>, <<1, 1>>, <<-1, 0>>, <<0, -1>>, <<101, 0>>}

\* the requests a handler answers before it looks at the id they name are
\* represented by the request that names id 0
NoId == 0

\* time.Now(): a time later than every time read before.  Times are compared
\* and never subtracted, so the least such time stands for all of them.
TimesRead == {comments[c].createdAt : c \in stored}
             \cup {c.createdAt : c \in {d \in Running : d.op = "create"}}
Now == IF TimesRead = {} THEN 1
       ELSE 1 + (CHOOSE t \in TimesRead : \A u \in TimesRead : t >= u)

GREATEST(a, b) == IF a >= b THEN a ELSE b

\* ---- triggers of the comments table ----

\* variant: the trigger leaves updated_at alone unless the statement changes content
update_updated_at_column_on_edit(old, new) ==
    IF new.content # old.content THEN [new EXCEPT !.updatedAt = @ + 1] ELSE new

\* BEFORE UPDATE, for each row: NEW.updated_at = NOW().  A timestamp is modelled
\* by the number of times the row's updated_at was set: NOW() is a later time
\* at every statement.
update_updated_at_column(old, new) == [new EXCEPT !.updatedAt = @ + 1]

\* UPDATE comments SET ... WHERE id = $id: the row as the statement stores it,
\* after the BEFORE UPDATE trigger
UpdateRow(cs, id, new) == [cs EXCEPT ![id] = update_updated_at_column(cs[id], new)]

\* variant: the trigger handles replies only, a root keeps the path the service built
set_comment_path_replies_only(cs, new) ==
    IF new.parentID = NULL
    THEN new
    ELSE [new EXCEPT !.path = Append(cs[new.parentID].path, new.id),
                     !.threadID = cs[new.parentID].threadID]

\* variant: the trigger handles roots only, a reply keeps the path the service built
set_comment_path_roots_only(cs, new) ==
    IF new.parentID = NULL
    THEN [new EXCEPT !.path = <<new.id>>, !.threadID = new.id]
    ELSE new

\* variant: no BEFORE INSERT trigger, the row is stored as the service built it
set_comment_path_as_given(cs, new) == new

\* variant: a reply's thread_id is taken to be its parent's id
set_comment_thread_from_parent_id(cs, new) ==
    IF new.parentID = NULL
    THEN [new EXCEPT !.path = <<new.id>>, !.threadID = new.id]
    ELSE [new EXCEPT !.path = Append(cs[new.parentID].path, new.id),
                     !.threadID = new.parentID]

\* BEFORE INSERT: the row's path and thread_id are set from the parent's row
set_comment_path_and_thread(cs, new) ==
    IF new.parentID = NULL
    THEN [new EXCEPT !.path = <<new.id>>, !.threadID = new.id]
    ELSE [new EXCEPT !.path = Append(cs[new.parentID].path, new.id),
                     !.threadID = cs[new.parentID].threadID]

\* variant: the increment carries the filter "AND deleted_at IS NULL"
update_replies_count_live_only(cs, new) ==
    IF new.parentID # NULL /\ ~cs[new.parentID].deleted
    THEN UpdateRow(cs, new.parentID, [cs[new.parentID] EXCEPT !.repliesCount = @ + 1])
    ELSE cs

\* variant: the increment is computed from the inserted row's own column
\* (SET replies_count = NEW.replies_count + 1), so a second reply overwrites the first
update_replies_count_from_new_row(cs, new) ==
    IF new.parentID # NULL
    THEN UpdateRow(cs, new.parentID,
                   [cs[new.parentID] EXCEPT !.repliesCount = new.repliesCount + 1])
    ELSE cs

\* variant: the increment goes to the root of the thread (WHERE id = NEW.thread_id)
update_replies_count_of_thread(cs, new) ==
    IF new.parentID # NULL
    THEN UpdateRow(cs, new.threadID, [cs[new.threadID] EXCEPT !.repliesCount = @ + 1])
    ELSE cs

\* AFTER INSERT: replies_count = replies_count + 1 on the parent's row
update_replies_count(cs, new) ==
    IF new.parentID # NULL
    THEN UpdateRow(cs, new.parentID, [cs[new.parentID] EXCEPT !.repliesCount = @ + 1])
    ELSE cs

\* variant: the trigger is bound to AFTER DELETE and never fires on a soft delete
decrement_replies_count_on_hard_delete(cs, old) == cs

\* AFTER UPDATE OF deleted_at, WHEN the old row is live and the new row deleted
decrement_replies_count(cs, old) ==
    IF old.parentID # NULL
    THEN UpdateRow(cs, old.parentID,
                   [cs[old.parentID] EXCEPT !.repliesCount = GREATEST(@ - 1, 0)])
    ELSE cs

\* ---- repository statements ----

\* variant: the INSERT fires the BEFORE INSERT trigger only, the parent's counter
\* is left to a later statement
Create_insert_only(cs, comment) ==
    LET new == set_comment_path_and_thread(cs, comment)
    IN cs @@ (new.id :> new)

\* commentRepository.Create: INSERT with both insert triggers
Create(cs, comment) ==
    LET new == set_comment_path_and_thread(cs, comment)
    IN update_replies_count(cs @@ (new.id :> new), new)

\* variant: the WHERE clause lacks "AND deleted_at IS NULL"
DeleteMatches_any_row(cs, id) == id \in DOMAIN cs

\* rows matched by "WHERE id = $2 AND deleted_at IS NULL"
DeleteMatches(cs, id) == id \in DOMAIN cs /\ ~cs[id].deleted

\* commentRepository.Delete: UPDATE SET deleted_at with the decrement trigger
\* (the trigger's WHEN clause: OLD.deleted_at IS NULL AND NEW.deleted_at IS NOT NULL)
Delete(cs, id) ==
    LET updated == UpdateRow(cs, id, [cs[id] EXCEPT !.deleted = TRUE])
    IN IF ~cs[id].deleted /\ updated[id].deleted
       THEN decrement_replies_count(updated, cs[id])
       ELSE updated

\* variant: the WHERE clause lacks "AND deleted_at IS NULL"
UpdateMatches_any_row(cs, id) == id \in DOMAIN cs

\* rows matched by commentRepository.Update's "WHERE id = $n AND deleted_at IS NULL"
UpdateMatches(cs, id) == id \in DOMAIN cs /\ ~cs[id].deleted

\* variant: the UPDATE writes created_by too, from a request that carries none
Update_with_author(cs, id, content) ==
    UpdateRow(cs, id, [cs[id] EXCEPT !.content = content, !.createdBy = NULL])

\* commentRepository.Update with content: UPDATE SET content, updated_at
Update(cs, id, content) ==
    UpdateRow(cs, id, [cs[id] EXCEPT !.content = content])

\* userRepository.GetByID: WHERE id = $1 AND deleted_at IS NULL
UserGetByID(ud, id) == id \in DOMAIN ud /\ ~ud[id]

\* variant: the post lookup lacks "AND deleted_at IS NULL"
PostGetByID_any_row(pd, id) == id \in DOMAIN pd

\* postRepository.GetByID: WHERE id = $1 AND deleted_at IS NULL
PostGetByID(pd, id) == id \in DOMAIN pd /\ ~pd[id]

\* variant: the lookup lacks "AND deleted_at IS NULL"
GetByID_any_row(cs, id) == id \in DOMAIN cs

\* variant: the lookup finds top-level comments only, replies nest one level
GetByID_top_level(cs, id) == id \in DOMAIN cs /\ ~cs[id].deleted /\ cs[id].parentID = NULL

\* commentRepository.GetByID: WHERE id = $1 AND deleted_at IS NULL
GetByID(cs, id) == id \in DOMAIN cs /\ ~cs[id].deleted

\* commentRepository.GetByIDWithAuthor: JOIN users, both rows live
GetByIDWithAuthor(cs, ud, id) ==
    /\ id \in DOMAIN cs
    /\ ~cs[id].deleted
    /\ cs[id].createdBy \in DOMAIN ud
    /\ ~ud[cs[id].createdBy]

\* variant: ListByPost lacks "AND c.parent_id IS NULL"
ListByPost_with_replies(cs, postID) ==
    {c \in DOMAIN cs : cs[c].postID = postID /\ ~cs[c].deleted}

\* commentRepository.ListByPost: WHERE c.post_id = $1 AND c.deleted_at IS NULL
\* AND c.parent_id IS NULL; the author is LEFT JOINed and filters nothing
ListByPost(cs, postID) ==
    {c \in DOMAIN cs : cs[c].postID = postID /\ ~cs[c].deleted /\ cs[c].parentID = NULL}

\* variant: GetReplies selects by thread (WHERE c.thread_id = $1)
GetReplies_of_thread(cs, parentID) ==
    {c \in DOMAIN cs : cs[c].threadID = parentID /\ ~cs[c].deleted}

\* commentRepository.GetReplies: WHERE c.parent_id = $1 AND c.deleted_at IS NULL
GetReplies(cs, parentID) ==
    {c \in DOMAIN cs : cs[c].parentID = parentID /\ ~cs[c].deleted}

\* variant: ascending order whatever the query asks for
RECURSIVE ORDER_BY_created_at_ASC(_, _, _)
ORDER_BY_created_at_ASC(cs, rows, desc) ==
    IF rows = {} THEN <<>>
    ELSE LET first == CHOOSE c \in rows : \A d \in rows : cs[c].createdAt <= cs[d].createdAt
         IN <<first>> \o ORDER_BY_created_at_ASC(cs, rows \ {first}, desc)

\* ORDER BY c.created_at DESC (desc) or ASC: the rows as a sequence of ids
RECURSIVE ORDER_BY_created_at(_, _, _)
ORDER_BY_created_at(cs, rows, desc) ==
    IF rows = {} THEN <<>>
    ELSE LET first == CHOOSE c \in rows :
                          \A d \in rows : IF desc THEN cs[c].createdAt >= cs[d].createdAt
                                                 ELSE cs[c].createdAt <= cs[d].createdAt
         IN <<first>> \o ORDER_BY_created_at(cs, rows \ {first}, desc)

Min(a, b) == IF a <= b THEN a ELSE b

\* variant: OFFSET is ignored, every page starts at the first row
LIMIT_without_OFFSET(rows, limit, offset) == SubSeq(rows, 1, Min(Len(rows), limit))

\* LIMIT $2 OFFSET $3
LIMIT_OFFSET(rows, limit, offset) ==
    SubSeq(rows, offset + 1, Min(Len(rows), offset + limit))

\* the whole query of commentRepository.ListByPost
ListByPostQuery(cs, postID, limit, offset) ==
    LIMIT_OFFSET(ORDER_BY_created_at(cs, ListByPost(cs, postID), TRUE), limit, offset)

\* the whole query of commentRepository.GetReplies
GetRepliesQuery(cs, parentID, limit, offset) ==
    LIMIT_OFFSET(ORDER_BY_created_at(cs, GetReplies(cs, parentID), FALSE), limit, offset)

Range(f) == {f[i] : i \in DOMAIN f}

\* ---- validation of requests (struct tags of package models) ----

\* the text of a new comment, the text of an edit, and the empty text
Original == 1
Edited == 2
Empty == 3

\* CreateCommentRequest.Content: validate:"required,min=1"
ValidCreateCommentRequest(content) == content # Empty

\* ListCommentsRequest: Limit validate:"omitempty,gte=1,lte=100",
\* Offset validate:"omitempty,gte=0" (omitempty: a zero value is not checked)
ValidListCommentsRequest(limit, offset) ==
    /\ limit = 0 \/ (limit >= 1 /\ limit <= 100)
    /\ offset = 0 \/ offset >= 0

\* the list handlers of the controller: strconv.Atoi of the query parameters,
\* "if err != nil || limit < 0" and the same for offset
ValidQuery(limit, offset) == limit >= 0 /\ offset >= 0

\* commentService.ListCommentsByPost: limit := 20, offset := 0, overwritten by
\* req.Limit > 0 and req.Offset >= 0, then limit capped at 100
ListCommentsByPost_limit(reqLimit) ==
    LET limit == IF reqLimit > 0 THEN reqLimit ELSE 20
    IN IF limit > 100 THEN 100 ELSE limit

ListCommentsByPost_offset(reqOffset) == IF reqOffset >= 0 THEN reqOffset ELSE 0

\* commentService.GetCommentReplies: limit <= 0 becomes 20, offset < 0 becomes
\* 0, then limit capped at 100
GetCommentReplies_limit(reqLimit) ==
    LET limit == IF reqLimit <= 0 THEN 20 ELSE reqLimit
    IN IF limit > 100 THEN 100 ELSE limit

GetCommentReplies_offset(reqOffset) == IF reqOffset < 0 THEN 0 ELSE reqOffset

\* the requests received: <<user, post, parent, content>> of CreateComment,
\* <<post, limit, offset>> of ListCommentsByPost, <<comment, limit, offset>> of
\* GetCommentReplies
CreateInputs ==
    {<<u, p, c, Original>> : u \in UserInputs, p \in PostInputs, c \in {NULL} \cup CommentInputs}
    \cup {<<NoId, NoId, NULL, Empty>>}

ListInputs ==
    {<<p, q[1], q[2]>> : p \in PostInputs,
                         q \in {r \in QueryInputs : ValidQuery(r[1], r[2])
                                                    /\ ValidListCommentsRequest(r[1], r[2])}}
    \cup {<<NoId, q[1], q[2]>> : q \in {r \in QueryInputs : ~(ValidQuery(r[1], r[2])
                                                    /\ ValidListCommentsRequest(r[1], r[2]))}}

RepliesInputs ==
    {<<c, q[1], q[2]>> : c \in CommentInputs, q \in {r \in QueryInputs : ValidQuery(r[1], r[2])}}
    \cup {<<NoId, q[1], q[2]>> : q \in {r \in QueryInputs : ~ValidQuery(r[1], r[2])}}

\* ---- utils: error kinds and the controllers' answers ----

IsNotFoundError(err) == err \in {"ErrUserNotFound", "ErrPostNotFound", "ErrCommentNotFound"}
IsForbiddenError(err) == err = "ErrForbidden"

\* variant: CommentController.CreateComment also answers a validation error
\* (utils.IsValidationError) as a client error
Respond_validation_mapped(op, err) ==
    IF err = "nil" THEN "OK"
    ELSE IF IsNotFoundError(err) THEN "NotFound"
    ELSE IF op \in {"update", "delete"} /\ IsForbiddenError(err) THEN "Forbidden"
    ELSE IF err = "ErrInvalidInput" THEN "ValidationFailed"
    ELSE "Internal"

\* what the controller of operation op answers for the service's error:
\* every controller maps IsNotFoundError to 404, UpdateComment and
\* DeleteComment map IsForbiddenError to 403, everything else is a 500
Respond(op, err) ==
    IF err = "nil" THEN "OK"
    ELSE IF IsNotFoundError(err) THEN "NotFound"
    ELSE IF op \in {"update", "delete"} /\ IsForbiddenError(err) THEN "Forbidden"
    ELSE "Internal"

\* variant: the caller is not compared with the comment's author
Owns_unchecked(comment, userID) == TRUE

\* the ownership check of UpdateComment and DeleteComment
Owns(comment, userID) == comment.createdBy # NULL /\ comment.createdBy = userID

\* variant: the parent's post is not compared with the requested post
SamePost_unchecked(parentPostID, reqPostID) == TRUE

\* the same-post check of CreateComment
SamePost(parentPostID, reqPostID) == parentPostID = reqPostID

\* ---- initial state: empty comments table, live posts and users ----
Init ==
    /\ comments = <<>>
    /\ postDeleted = [p \in Posts |-> FALSE]
    /\ userDeleted = [u \in Users |-> FALSE]
    /\ inflight = EmptyBag
    /\ ret = NoResult
    /\ createOk = [c \in CommentIds |-> 0]
    /\ createLate = [c \in CommentIds |-> 0]
    /\ deleteOk = [c \in CommentIds |-> 0]
    /\ calls = 0

\* a request arrives and a handler starts running call c
Start(c) ==
    /\ calls < MaxCalls
    /\ BagCardinality(inflight) < NumProcs
    /\ calls' = calls + 1
    /\ inflight' = inflight (+) SetToBag({c})
    /\ ret' = NoResult

\* call c moves on to its next statement with locals d
Continue(c, d) ==
    /\ inflight' = (inflight (-) SetToBag({c})) (+) SetToBag({d})
    /\ ret' = NoResult

\* call c returns r to its caller
Return(c, r) ==
    /\ inflight' = inflight (-) SetToBag({c})
    /\ ret' = r

\* what a handler answers: the service's error and the controller's answer to it
Answer(op, err, id, parentID) ==
    [NoResult EXCEPT !.op = op, !.err = err, !.kind = Respond(op, err),
                     !.id = id, !.parentID = parentID]

\* utils.ValidationErrorResponse of a controller that does not call the service
Refuse(op) ==
    [NoResult EXCEPT !.op = op, !.err = "none", !.kind = "ValidationFailed"]

\* utils.SuccessResponse of a list handler: the items, the limit and offset of
\* the request, and the number of items
Page(op, id, page, reqLimit, reqOffset, limit, offset) ==
    [Answer(op, "nil", id, NULL)
        EXCEPT !.page = page, !.items = Range(page),
               !.envelope = [limit |-> reqLimit, offset |-> reqOffset, count |-> Len(page)],
               !.applied = <<limit, offset>>]

Fail(c, err, id) == Return(c, Answer(c.op, err, id, c.parentID))

\* a request arrives and its handler returns r after its first statement
ReturnAtOnce(r) ==
    /\ calls < MaxCalls
    /\ BagCardinality(inflight) < NumProcs
    /\ calls' = calls + 1
    /\ ret' = r
    /\ UNCHANGED inflight

\* ---- commentService.CreateComment ----

\* request arrives; validator.ValidateStruct(req); userRepo.GetByID(userID),
\* postRepo.GetByID(req.PostID); then the comment model is built with a fresh id
\* and CreatedAt = time.Now().  The two lookups are one step: each
\* reads one row and writes nothing, so a step of another call that falls between
\* them can be moved before the first or after the second without changing what
\* either call reads or returns.
CreateComment_FindUserAndPost(userID, postID, parentID, content) ==
    /\ CommentIds \ (stored \cup inFlightIds) # {}
    /\ UNCHANGED <<comments, postDeleted, userDeleted, createOk, createLate, deleteOk>>
    /\ IF ~ValidCreateCommentRequest(content)
       THEN ReturnAtOnce(Answer("create", "ValidationErrors", 0, NULL))
       ELSE IF ~UserGetByID(userDeleted, userID) \/ ~PostGetByID(postDeleted, postID)
       THEN ReturnAtOnce(Answer("create",
                                IF ~UserGetByID(userDeleted, userID) THEN "ErrUserNotFound"
                                ELSE "ErrPostNotFound",
                                0, parentID))
       ELSE Start([NoCall EXCEPT !.op = "create", !.userID = userID,
                                 !.pc = IF parentID # NULL THEN "c_parent" ELSE "c_insert",
                                 !.postID = postID, !.parentID = parentID,
                                 !.content = content,
                                 !.createdAt = Now,
                                 !.id = NewUUID,
                                 !.threadID = IF parentID # NULL THEN 0 ELSE NewUUID])

\* commentRepo.GetByID(*req.ParentID), same-post check, path and thread from the parent
CreateComment_FindParent(c) ==
    /\ c.pc = "c_parent"
    /\ UNCHANGED <<comments, postDeleted, userDeleted, createOk, createLate, deleteOk, calls>>
    /\ IF ~GetByID(comments, c.parentID)
       THEN Fail(c, "ErrCommentNotFound", 0)
       ELSE IF ~SamePost(comments[c.parentID].postID, c.postID)
       THEN Fail(c, "ErrInvalidInput", 0)
       ELSE Continue(c, [c EXCEPT !.pc = "c_insert",
                                  !.threadID = comments[c.parentID].threadID,
                                  !.path = Append(comments[c.parentID].path, c.parentID)])

\* commentRepo.Create(comment)
CreateComment_Insert(c) ==
    /\ c.pc = "c_insert"
    /\ comments' = Create(comments,
                          [id |-> c.id, postID |-> c.postID, parentID |-> c.parentID,
                           path |-> c.path, threadID |-> c.threadID, createdBy |-> c.userID,
                           deleted |-> FALSE, repliesCount |-> 0,
                           content |-> c.content, createdAt |-> c.createdAt,
                           updatedAt |-> 0])
    /\ Continue(c, [c EXCEPT !.pc = "c_reread"])
    /\ UNCHANGED <<postDeleted, userDeleted, createOk, createLate, deleteOk, calls>>

\* commentRepo.GetByIDWithAuthor(comment.ID); the stored row is what is returned
CreateComment_Reread(c) ==
    /\ c.pc = "c_reread"
    /\ UNCHANGED <<comments, postDeleted, userDeleted, deleteOk, calls>>
    /\ IF ~GetByIDWithAuthor(comments, userDeleted, c.id)
       THEN /\ Fail(c, "ErrCommentNotFound", c.id)
            /\ createLate' = IF c.parentID # NULL THEN [createLate EXCEPT ![c.parentID] = @ + 1]
                             ELSE createLate
            /\ UNCHANGED createOk
       ELSE /\ Return(c, [Answer("create", "nil", c.id, c.parentID)
                             EXCEPT !.path = comments[c.id].path,
                                    !.threadID = comments[c.id].threadID])
            /\ createOk' = IF c.parentID # NULL THEN [createOk EXCEPT ![c.parentID] = @ + 1]
                           ELSE createOk
            /\ UNCHANGED createLate

\* ---- commentService.GetCommentByID ----

\* commentRepo.GetByIDWithAuthor(commentID)
GetCommentByID(id) ==
    /\ UNCHANGED <<comments, postDeleted, userDeleted, createOk, createLate, deleteOk>>
    /\ IF ~GetByIDWithAuthor(comments, userDeleted, id)
       THEN ReturnAtOnce(Answer("get", "ErrCommentNotFound", id, NULL))
       ELSE ReturnAtOnce([Answer("get", "nil", id, comments[id].parentID)
                             EXCEPT !.path = comments[id].path,
                                    !.threadID = comments[id].threadID])

\* ---- commentService.UpdateComment ----

\* request arrives; commentRepo.GetByID(id) and the ownership check
UpdateComment_Find(userID, id, content) ==
    /\ UNCHANGED <<comments, postDeleted, userDeleted, createOk, createLate, deleteOk>>
    /\ IF ~GetByID(comments, id)
       THEN ReturnAtOnce(Answer("update", "ErrCommentNotFound", id, NULL))
       ELSE IF ~Owns(comments[id], userID)
       THEN ReturnAtOnce(Answer("update", "ErrForbidden", id, NULL))
       ELSE Start([NoCall EXCEPT !.op = "update", !.pc = "u_update", !.userID = userID,
                                 !.id = id, !.content = content])

\* commentRepo.Update(id, req): the UPDATE statement; without content the
\* repository runs no UPDATE and returns GetByIDWithAuthor(id) at once
UpdateComment_Update(c) ==
    /\ c.pc = "u_update"
    /\ UNCHANGED <<postDeleted, userDeleted, createOk, createLate, deleteOk, calls>>
    /\ IF c.content = NULL
       THEN /\ UNCHANGED comments
            /\ Fail(c, IF GetByIDWithAuthor(comments, userDeleted, c.id)
                       THEN "nil" ELSE "ErrCommentNotFound", c.id)
       ELSE IF ~UpdateMatches(comments, c.id)
       THEN /\ UNCHANGED comments
            /\ Fail(c, "ErrCommentNotFound", c.id)
       ELSE /\ comments' = Update(comments, c.id, c.content)
            /\ Continue(c, [c EXCEPT !.pc = "u_reread"])

\* commentRepo.Update, last statement: GetByIDWithAuthor(id)
UpdateComment_Reread(c) ==
    /\ c.pc = "u_reread"
    /\ UNCHANGED <<comments, postDeleted, userDeleted, createOk, createLate, deleteOk, calls>>
    /\ Fail(c, IF GetByIDWithAuthor(comments, userDeleted, c.id)
               THEN "nil" ELSE "ErrCommentNotFound", c.id)

\* ---- commentService.DeleteComment ----

\* request arrives; commentRepo.GetByID(commentID) and the ownership check
DeleteComment_Find(userID, id) ==
    /\ UNCHANGED <<comments, postDeleted, userDeleted, createOk, createLate, deleteOk>>
    /\ IF ~GetByID(comments, id)
       THEN ReturnAtOnce(Answer("delete", "ErrCommentNotFound", id, NULL))
       ELSE IF ~Owns(comments[id], userID)
       THEN ReturnAtOnce(Answer("delete", "ErrForbidden", id, NULL))
       ELSE Start([NoCall EXCEPT !.op = "delete", !.pc = "d_delete", !.userID = userID, !.id = id])

\* commentRepo.Delete(commentID)
DeleteComment_Delete(c) ==
    /\ c.pc = "d_delete"
    /\ UNCHANGED <<postDeleted, userDeleted, createOk, createLate, calls>>
    /\ IF ~DeleteMatches(comments, c.id)
       THEN /\ Fail(c, "ErrCommentNotFound", c.id)
            /\ UNCHANGED <<comments, deleteOk>>
       ELSE /\ comments' = Delete(comments, c.id)
            /\ deleteOk' = [deleteOk EXCEPT ![c.id] = @ + 1]
            /\ Return(c, Answer("delete", "nil", c.id, comments[c.id].parentID))

\* ---- commentService.ListCommentsByPost ----

\* request arrives; the controller parses limit and offset; the service
\* validates the request; postRepo.GetByID(postID)
ListCommentsByPost_FindPost(postID, limit, offset) ==
    /\ UNCHANGED <<comments, postDeleted, userDeleted, createOk, createLate, deleteOk>>
    /\ IF ~ValidQuery(limit, offset)
       THEN ReturnAtOnce(Refuse("list"))
       ELSE IF ~ValidListCommentsRequest(limit, offset)
       THEN ReturnAtOnce(Answer("list", "ValidationErrors", NoId, NULL))
       ELSE IF ~PostGetByID(postDeleted, postID)
       THEN ReturnAtOnce(Answer("list", "ErrPostNotFound", postID, NULL))
       ELSE Start([NoCall EXCEPT !.op = "list", !.pc = "l_list", !.postID = postID,
                                 !.limit = limit, !.offset = offset])

\* defaults and cap of limit and offset; commentRepo.ListByPost(postID, limit,
\* offset); the controller answers the page with the limit and offset of the
\* request and the number of items
ListCommentsByPost_List(c) ==
    /\ c.pc = "l_list"
    /\ UNCHANGED <<comments, postDeleted, userDeleted, createOk, createLate, deleteOk, calls>>
    /\ LET limit == ListCommentsByPost_limit(c.limit)
           offset == ListCommentsByPost_offset(c.offset)
           page == ListByPostQuery(comments, c.postID, limit, offset)
       IN Return(c, Page("list", c.postID, page, c.limit, c.offset, limit, offset))

\* ---- commentService.GetCommentReplies ----

\* request arrives; the controller parses limit and offset;
\* commentRepo.GetByID(commentID)
GetCommentReplies_Find(id, limit, offset) ==
    /\ UNCHANGED <<comments, postDeleted, userDeleted, createOk, createLate, deleteOk>>
    /\ IF ~ValidQuery(limit, offset)
       THEN ReturnAtOnce(Refuse("replies"))
       ELSE IF ~GetByID(comments, id)
       THEN ReturnAtOnce(Answer("replies", "ErrCommentNotFound", id, NULL))
       ELSE Start([NoCall EXCEPT !.op = "replies", !.pc = "r_list", !.id = id,
                                 !.limit = limit, !.offset = offset])

\* defaults and cap of limit and offset; commentRepo.GetReplies(commentID,
\* limit, offset); the controller answers the page with the limit and offset
\* of the request and the number of items
GetCommentReplies_List(c) ==
    /\ c.pc = "r_list"
    /\ UNCHANGED <<comments, postDeleted, userDeleted, createOk, createLate, deleteOk, calls>>
    /\ LET limit == GetCommentReplies_limit(c.limit)
           offset == GetCommentReplies_offset(c.offset)
           page == GetRepliesQuery(comments, c.id, limit, offset)
       IN Return(c, Page("replies", c.id, page, c.limit, c.offset, limit, offset))

\* ---- other writers of the tables the comment service reads ----

\* postRepository.Delete
DeletePost(post) ==
    /\ calls < MaxCalls
    /\ post \in Posts
    /\ ~postDeleted[post]
    /\ calls' = calls + 1
    /\ postDeleted' = [postDeleted EXCEPT ![post] = TRUE]
    /\ ret' = NoResult
    /\ UNCHANGED <<comments, userDeleted, inflight, createOk, createLate, deleteOk>>

\* userRepository.Delete
DeleteUser(u) ==
    /\ calls < MaxCalls
    /\ ~userDeleted[u]
    /\ calls' = calls + 1
    /\ userDeleted' = [userDeleted EXCEPT ![u] = TRUE]
    /\ ret' = NoResult
    /\ UNCHANGED <<comments, postDeleted, inflight, createOk, createLate, deleteOk>>

Next ==
    \/ \E r \in CreateInputs : CreateComment_FindUserAndPost(r[1], r[2], r[3], r[4])
    \/ \E c \in Running : CreateComment_FindParent(c)
    \/ \E c \in Running : CreateComment_Insert(c)
    \/ \E c \in Running : CreateComment_Reread(c)
    \/ \E id \in CommentInputs : GetCommentByID(id)
    \/ \E u \in UserInputs, id \in CommentInputs, content \in {NULL, Edited} :
          UpdateComment_Find(u, id, content)
    \/ \E c \in Running : UpdateComment_Update(c)
    \/ \E c \in Running : UpdateComment_Reread(c)
    \/ \E u \in UserInputs, id \in CommentInputs : DeleteComment_Find(u, id)
    \/ \E c \in Running : DeleteComment_Delete(c)
    \/ \E r \in ListInputs : ListCommentsByPost_FindPost(r[1], r[2], r[3])
    \/ \E c \in Running : ListCommentsByPost_List(c)
    \/ \E r \in RepliesInputs : GetCommentReplies_Find(r[1], r[2], r[3])
    \/ \E c \in Running : GetCommentReplies_List(c)
    \/ \E post \in PostInputs : DeletePost(post)
    \/ \E u \in UserInputs : DeleteUser(u)

Spec == Init /\ [][Next]_vars

\* ======================================================================
\* Properties
\* ======================================================================

Quiescent == inflight = EmptyBag

Replies(c) == {d \in stored : comments[d].parentID = c}
LiveReplies(c) == {d \in Replies(c) : ~comments[d].deleted}

RECURSIVE SumOver(_, _)
SumOver(f, S) == IF S = {} THEN 0
                 ELSE LET x == CHOOSE y \in S : TRUE IN f[x] + SumOver(f, S \ {x})

\* C1: whenever no CreateComment or DeleteComment call is in progress, every
\* stored comment, live or soft-deleted, has repliesCount equal to the number
\* of live comments whose parentId is its id.
C1_RepliesCountIsLiveReplies ==
    Quiescent =>
        \A c \in stored : comments[c].repliesCount = Cardinality(LiveReplies(c))

\* at rest, a comment whose only reply has been soft-deleted counts 0
C1_Witness ==
    /\ Quiescent
    /\ \E c \in stored :
          /\ Replies(c) # {}
          /\ LiveReplies(c) = {}
          /\ comments[c].repliesCount = 0

C3_DecrementStep ==
    \A d \in stored :
        (~comments[d].deleted /\ comments'[d].deleted /\ comments[d].parentID # NULL) =>
            comments'[comments[d].parentID].repliesCount =
                IF comments[comments[d].parentID].repliesCount >= 1
                THEN comments[comments[d].parentID].repliesCount - 1
                ELSE 0

C3_NonNegative == \A c \in stored : comments[c].repliesCount >= 0

C3_DecrementByOneFlooredAtZero == [][C3_DecrementStep]_vars /\ []C3_NonNegative

\* a DeleteComment call has just soft-deleted a reply, and the direct
\* parent's count is back at 0
C3_Witness ==
    /\ ret.op = "delete" /\ ret.err = "nil" /\ ret.parentID # NULL
    /\ comments[ret.id].deleted
    /\ comments[ret.parentID].repliesCount = 0

\* C4: a DeleteComment call on a comment that is missing or already
\* soft-deleted returns NotFound and its step changes no row; a call that
\* succeeds soft-deletes a live comment and lowers its parent's count by one;
\* over any interleaving of attempts on one comment at most one succeeds, and
\* once an attempt on a stored comment was refused as NotFound, or the comment
\* is soft-deleted, exactly one has succeeded.
C4_DeleteStep ==
    /\ (ret'.op = "delete" /\ (ret'.id \notin stored \/ comments[ret'.id].deleted)) =>
           ret'.err = "ErrCommentNotFound"
    /\ (ret'.op = "delete" /\ ret'.err = "ErrCommentNotFound") => comments' = comments
    /\ (ret'.op = "delete" /\ ret'.err = "nil") =>
           /\ ret'.id \in stored
           /\ ~comments[ret'.id].deleted
           /\ comments'[ret'.id].deleted
           /\ comments[ret'.id].parentID # NULL =>
                 comments'[comments[ret'.id].parentID].repliesCount =
                     comments[comments[ret'.id].parentID].repliesCount - 1

C4_ExactlyOneSucceeds ==
    /\ \A c \in CommentIds : deleteOk[c] <= 1
    /\ \A c \in stored : comments[c].deleted <=> deleteOk[c] = 1
    /\ (ret.op = "delete" /\ ret.err = "ErrCommentNotFound" /\ ret.id \in stored) =>
           deleteOk[ret.id] = 1

C4_DeleteOnceOnly == [][C4_DeleteStep]_vars /\ []C4_ExactlyOneSucceeds

\* two attempts on one comment both passed the lookup; one has succeeded and
\* the other is about to run its UPDATE on the already soft-deleted row
C4_Witness ==
    \E q \in Running :
        /\ q.pc = "d_delete"
        /\ q.id \in stored
        /\ comments[q.id].deleted
        /\ deleteOk[q.id] = 1

\* C5: a step changes the repliesCount of a comment only if it inserts a
\* reply whose parentId is that comment or soft-deletes one: the counts of
\* the parent's ancestors and siblings, of the created or deleted comment and
\* of its children stay as they were.
C5_FrameStep ==
    \A c \in stored :
        comments'[c].repliesCount # comments[c].repliesCount =>
            \E d \in DOMAIN comments' :
                /\ comments'[d].parentID = c
                /\ \/ d \notin stored
                   \/ ~comments[d].deleted /\ comments'[d].deleted

Roots == {c \in stored : comments[c].parentID = NULL}
NonRoots == stored \ Roots

\* the comments met when following parentId from c up to a root, c first
RECURSIVE ChainUp(_)
ChainUp(c) == IF comments[c].parentID = NULL THEN <<c>>
              ELSE <<c>> \o ChainUp(comments[c].parentID)

Reverse(s) == [i \in 1..Len(s) |-> s[Len(s) + 1 - i]]

\* 1-based nesting level, by parent pointers
Depth(c) == Len(ChainUp(c))

RootOf(c) == ChainUp(c)[Len(ChainUp(c))]

CreatedRoot == ret.op = "create" /\ ret.err = "nil" /\ ret.parentID = NULL
CreatedReply == ret.op = "create" /\ ret.err = "nil" /\ ret.parentID # NULL

\* C6 (as stated): every comment created without a parent is stored, and
\* returned by CreateComment, with the empty path and threadId = its own id.
C6_RootPathEmpty ==
    /\ \A c \in Roots : comments[c].path = <<>> /\ comments[c].threadID = c
    /\ CreatedRoot => ret.path = <<>> /\ ret.threadID = ret.id

\* C6 (amended): every comment created without a parent is stored, and
\* returned by CreateComment, with path = [its own id] and threadId = its own id.
C6_RootPathIsOwnId ==
    /\ \A c \in Roots : comments[c].path = <<c>> /\ comments[c].threadID = c
    /\ CreatedRoot => ret.path = <<ret.id>> /\ ret.threadID = ret.id

\* CreateComment has just returned a root comment
C6_Witness == CreatedRoot /\ ret.id \in Roots

C10_ReplyOnParentsPost ==
    \A c \in NonRoots : comments[c].postID = comments[comments[c].parentID].postID

\* a reply is stored and a reply naming a parent on another post was just refused
C10_Witness ==
    /\ ret.op = "create" /\ ret.err = "ErrInvalidInput"
    /\ NonRoots # {}


\* ---- errors of CreateComment ----

\* call c takes this step
Took(c) == CopiesIn(c, inflight') < CopiesIn(c, inflight)

\* a request arrives in this step (the handler's first statement runs)
Arrives == calls' = calls + 1

\* the calls that start in this step and stay in progress
Started == {c \in BagToSet(inflight') : CopiesIn(c, inflight') > CopiesIn(c, inflight)
                                        /\ Arrives}

RepliesCounts(cs) == [c \in DOMAIN cs |-> cs[c].repliesCount]

\* C11 (as stated): a CreateComment call whose parent is a live comment of
\* another post than the one requested is answered with the error kind of an
\* invalid reference, a client error of its own, stores no comment and changes
\* no repliesCount.
C11_OtherPostStep ==
    \A c \in Running :
        (/\ c.op = "create" /\ c.pc = "c_parent" /\ Took(c)
         /\ GetByID(comments, c.parentID)
         /\ comments[c.parentID].postID # c.postID) =>
            /\ ret'.op = "create"
            /\ ret'.err = "ErrInvalidInput"
            /\ ret'.kind = "ValidationFailed"
            /\ DOMAIN comments' = DOMAIN comments
            /\ RepliesCounts(comments') = RepliesCounts(comments)

C11_OtherPostIsInvalidReference == [][C11_OtherPostStep]_vars

\* a reply naming a live parent on another post was just refused: the service
\* returned ErrInvalidInput and the controller answered it as an internal error
C11_Witness ==
    /\ ret.op = "create" /\ ret.err = "ErrInvalidInput" /\ ret.kind = "Internal"
    /\ ret.parentID \in stored
    /\ ~comments[ret.parentID].deleted
    /\ comments[ret.parentID].repliesCount = 0

\* C12: a CreateComment call (of a request that passes validation) goes on
\* past its first step only if the post is stored and live, and is otherwise
\* answered NotFound at once; a call whose parent is missing or soft-deleted
\* when looked up is answered NotFound; in both cases the step stores no
\* comment and changes no repliesCount.
C12_NotFoundStep ==
    /\ \A c \in Started : c.op = "create" => PostGetByID(postDeleted, c.postID)
    /\ (Arrives /\ ret'.op = "create" /\ ret'.err # "ValidationErrors") =>
           /\ ret'.kind = "NotFound"
           /\ comments' = comments
    /\ \A c \in Running :
           (c.op = "create" /\ c.pc = "c_parent" /\ Took(c)
            /\ (c.parentID \notin stored \/ comments[c.parentID].deleted)) =>
               /\ ret'.op = "create"
               /\ ret'.err = "ErrCommentNotFound"
               /\ ret'.kind = "NotFound"
               /\ comments' = comments

C12_MissingPostOrParentIsNotFound == [][C12_NotFoundStep]_vars

\* a reply whose parent was soft-deleted after the call began was just refused
\* as NotFound, and the parent still counts no reply
C12_Witness ==
    /\ ret.op = "create" /\ ret.err = "ErrCommentNotFound" /\ ret.kind = "NotFound"
    /\ ret.parentID \in stored
    /\ comments[ret.parentID].deleted
    /\ comments[ret.parentID].repliesCount = 0
    /\ Replies(ret.parentID) = {}


\* ---- UpdateComment and DeleteComment ----

Mutations == {"update", "delete"}

\* C13: an UpdateComment or DeleteComment call goes on past its lookup only
\* if the caller is the createdBy of a live comment; a call by anyone else is
\* answered at once, NotFound if the comment is missing (or soft-deleted) and
\* Forbidden otherwise, and its step changes no comment; so in every
\* interleaving every mutation in progress is the author's.
C13_RefuseStep ==
    /\ \A c \in Started :
           c.op \in Mutations =>
               /\ c.id \in stored
               /\ ~comments[c.id].deleted
               /\ comments[c.id].createdBy = c.userID
    /\ (Arrives /\ ret'.op \in Mutations) =>
           /\ comments' = comments
           /\ (ret'.id \notin stored \/ comments[ret'.id].deleted) =>
                  ret'.err = "ErrCommentNotFound" /\ ret'.kind = "NotFound"
           /\ (ret'.id \in stored /\ ~comments[ret'.id].deleted) =>
                  ret'.err = "ErrForbidden" /\ ret'.kind = "Forbidden"

C13_OnlyAuthorInProgress ==
    \A c \in Running : c.op \in Mutations => comments[c.id].createdBy = c.userID

C13_NonAuthorIsForbidden == [][C13_RefuseStep]_vars /\ []C13_OnlyAuthorInProgress

\* an UpdateComment by another user was just refused as Forbidden while the
\* author's own DeleteComment is in progress; the comment is as it was created
C13_Witness ==
    /\ ret.op = "update" /\ ret.err = "ErrForbidden" /\ ret.kind = "Forbidden"
    /\ ~comments[ret.id].deleted
    /\ comments[ret.id].content = Original
    /\ comments[ret.id].updatedAt = 0
    /\ \E q \in Running : q.op = "delete" /\ q.id = ret.id

\* C14: no step clears the deleted mark of a comment or changes the content
\* of a soft-deleted comment; an UpdateComment that arrives for a soft-deleted
\* comment, and one that passed its lookup and runs its UPDATE after the
\* delete, is answered NotFound and changes no comment.
C14_TerminalStep ==
    /\ \A c \in stored :
           comments[c].deleted =>
               /\ c \in DOMAIN comments'
               /\ comments'[c].deleted
               /\ comments'[c].content = comments[c].content
    /\ (Arrives /\ ret'.op = "update" /\ ret'.id \in stored /\ comments[ret'.id].deleted) =>
           ret'.kind = "NotFound" /\ comments' = comments
    /\ \A q \in Running :
           (q.op = "update" /\ Took(q) /\ comments[q.id].deleted) =>
               /\ ret'.op = "update"
               /\ ret'.err = "ErrCommentNotFound"
               /\ ret'.kind = "NotFound"
               /\ comments' = comments

C14_DeletedIsTerminal == [][C14_TerminalStep]_vars

\* an UpdateComment with new content passed its lookup, the comment was then
\* soft-deleted, and the UPDATE is about to run on the soft-deleted row
C14_Witness ==
    \E q \in Running :
        /\ q.op = "update" /\ q.pc = "u_update" /\ q.content = Edited
        /\ comments[q.id].deleted
        /\ comments[q.id].content = Original
        /\ deleteOk[q.id] = 1


\* ---- reads ----

\* what commentService.GetCommentReplies(id) returns when it runs undisturbed
\* in the current state: the replies, or nothing (NotFound) for a comment
\* that GetByID does not find
GetCommentRepliesNow(id) ==
    IF GetByID(comments, id) THEN GetReplies(comments, id) ELSE {}

\* what commentService.ListCommentsByPost(post) returns when it runs
\* undisturbed in the current state
ListCommentsByPostNow(post) ==
    IF PostGetByID(postDeleted, post) THEN ListByPost(comments, post) ELSE {}

\* the listings the service offers: the top-level comments of a post, the
\* replies of a comment
Listed == UNION ({ListCommentsByPostNow(p) : p \in Posts}
                 \cup {GetCommentRepliesNow(c) : c \in stored})

C15_DeleteStep ==
    \A c \in stored :
        (~comments[c].deleted /\ comments'[c].deleted) =>
            \E q \in Running : q.op = "delete" /\ Took(q) /\ q.id = c

\* C15 (as stated): a step soft-deletes only the comment its DeleteComment
\* call names, and the live descendants of a soft-deleted comment stay
\* retrievable through a listing: every live reply is returned by a listing
\* the service offers.
C15_DescendantsStayListed ==
    /\ [][C15_DeleteStep]_vars
    /\ [](\A c \in NonRoots : ~comments[c].deleted => c \in Listed)

\* a live reply under a soft-deleted parent: GetCommentReplies of the parent
\* answers NotFound, and no other listing returns the reply
C15_Witness ==
    \E c \in NonRoots :
        /\ ~comments[c].deleted
        /\ comments[comments[c].parentID].deleted
        /\ PostGetByID(postDeleted, comments[c].postID)
        /\ c \notin Listed

\* C16 (as stated): GetCommentByID returns the comment exactly when a comment
\* with that id is stored and not soft-deleted, and is answered NotFound
\* otherwise.
C16_GetStep ==
    (Arrives /\ ret'.op = "get") =>
        /\ comments' = comments
        /\ IF ret'.id \in stored /\ ~comments[ret'.id].deleted
           THEN ret'.err = "nil" /\ ret'.path = comments[ret'.id].path
           ELSE ret'.kind = "NotFound"

C16_GetReturnsLiveComment == [][C16_GetStep]_vars

\* GetCommentByID of a live comment whose author was soft-deleted was just
\* answered NotFound
C16_Witness ==
    /\ ret.op = "get" /\ ret.err = "ErrCommentNotFound" /\ ret.kind = "NotFound"
    /\ ret.id \in stored
    /\ ~comments[ret.id].deleted
    /\ userDeleted[comments[ret.id].createdBy]


\* ---- what a step may change in a stored comment ----

\* C17: no step removes a stored comment or changes its id, postId,
\* parentId, path, threadId or createdBy, and a step changes the content of a
\* comment only if it is the UPDATE of an UpdateComment call of its author.
C17_FrameStep ==
    \A c \in stored :
        /\ c \in DOMAIN comments'
        /\ comments'[c].id = comments[c].id
        /\ comments'[c].postID = comments[c].postID
        /\ comments'[c].parentID = comments[c].parentID
        /\ comments'[c].path = comments[c].path
        /\ comments'[c].threadID = comments[c].threadID
        /\ comments'[c].createdBy = comments[c].createdBy
        /\ comments'[c].content # comments[c].content =>
               \E q \in Running :
                   /\ q.op = "update" /\ q.pc = "u_update" /\ Took(q)
                   /\ q.id = c
                   /\ q.userID = comments[c].createdBy

C18_UpdatedAtStep ==
    \A c \in stored :
        comments'[c].updatedAt # comments[c].updatedAt =>
            \E q \in Running :
                q.op = "update" /\ q.pc = "u_update" /\ Took(q) /\ q.id = c

C18_UpdatedAtOnlyOnEdit == [][C18_UpdatedAtStep]_vars

\* a comment that was never edited has a changed updatedAt: a reply was
\* created under it
C18_Witness ==
    \E c \in stored :
        /\ comments[c].content = Original
        /\ ~comments[c].deleted
        /\ comments[c].repliesCount = 1
        /\ comments[c].updatedAt = 1

\* ---- listings ----

\* C19: ListCommentsByPost returns only comments that are stored, live,
\* posted on the requested post and without a parent.
C19_ListsOnlyLiveRootsOfPost ==
    (ret.op = "list" /\ ret.err = "nil") =>
        \A c \in ret.items :
            /\ c \in stored
            /\ ~comments[c].deleted
            /\ comments[c].postID = ret.id
            /\ comments[c].parentID = NULL

\* the listing of a post that has a live root and a live reply has just
\* returned the root alone
C19_Witness ==
    /\ ret.op = "list" /\ ret.err = "nil"
    /\ ret.items # {}
    /\ \E c \in NonRoots : comments[c].postID = ret.id /\ ~comments[c].deleted
                           /\ c \notin ret.items

ListOk == ret.op = "list" /\ ret.err = "nil"
RepliesOk == ret.op = "replies" /\ ret.err = "nil"

InScope == IF ret.op = "list" THEN ListByPost(comments, ret.id)
           ELSE GetReplies(comments, ret.id)

\* C22 (as stated): every list response carries limit, offset, total and
\* hasMore, where total is the number of live comments in scope and hasMore
\* says whether offset + the number of returned items is below total.
C22_EnvelopeHasTotalAndHasMore ==
    (ListOk \/ RepliesOk) =>
        /\ {"limit", "offset", "total", "hasMore"} \subseteq DOMAIN ret.envelope
        /\ ret.envelope.total = Cardinality(InScope)
        /\ ret.envelope.hasMore = (ret.envelope.offset + Len(ret.page) < ret.envelope.total)

\* a top-level listing has returned the second of two live roots: the response
\* carries limit, offset and count and nothing that tells the total
C22_Witness ==
    /\ ListOk
    /\ Cardinality(InScope) = 2
    /\ Len(ret.page) = 1
    /\ ret.envelope = [limit |-> 1, offset |-> 1, count |-> 1]

\* the list response ret answers a request whose offset is at or beyond the
\* number of live comments in scope
OffsetBeyondTotal == (ListOk \/ RepliesOk) /\ ret.applied[2] >= Cardinality(InScope)

\* what holds of such a response: it is a success with no items and count 0
EmptyPageBeyondTotal ==
    OffsetBeyondTotal => ret.kind = "OK" /\ ret.page = <<>> /\ ret.envelope.count = 0

\* C23 (as stated): a list request whose offset is at or beyond the number of
\* live comments in scope is answered with success, an empty item list and
\* hasMore = false.
C23_EmptyPageWithHasMoreFalse ==
    OffsetBeyondTotal =>
        /\ ret.kind = "OK"
        /\ ret.page = <<>>
        /\ "hasMore" \in DOMAIN ret.envelope
        /\ ret.envelope.hasMore = FALSE

\* the replies of a comment with one live reply were requested at offset 1:
\* the response is a success with no items, and says nothing about more
C23_Witness ==
    /\ RepliesOk
    /\ Cardinality(InScope) = 1
    /\ ret.applied = <<1, 1>>
    /\ ret.page = <<>>
    /\ DOMAIN ret.envelope = {"limit", "offset", "count"}

\* a list request was refused for its limit or offset: by the controller
\* (ValidationFailed, the service is not called) or by the service's validator
RefusedQuery(r) ==
    /\ r.op \in {"list", "replies"}
    /\ r.kind = "ValidationFailed" \/ r.err = "ValidationErrors"

\* what holds of the list queries that run: LIMIT is within 1..100 and OFFSET >= 0
AppliedWithinRange ==
    (ListOk \/ RepliesOk) => ret.applied[1] \in 1..100 /\ ret.applied[2] >= 0

\* C24 (as stated): no list request is refused for the limit or offset it
\* sends, and the list query runs with a limit within 1..100 and an offset >= 0.
C24_ClampedNeverRejected ==
    /\ [][~RefusedQuery(ret')]_vars
    /\ []AppliedWithinRange

\* a top-level listing with limit = 101 was refused by the service's validator
\* and answered as an internal error
C24_Witness ==
    /\ ret.op = "list"
    /\ ret.err = "ValidationErrors"
    /\ ret.kind = "Internal"

Listings == {"list", "replies"}

\* C25: a list call goes on past its lookup only if the post (for a top-level
\* listing) or the comment (for a reply listing) is stored and live; a request
\* that names a missing or soft-deleted one is answered NotFound at once,
\* and only a call that passed the lookup returns a page.
C25_ListNotFoundStep ==
    /\ \A c \in Started :
           /\ c.op = "list" => c.postID \in Posts /\ ~postDeleted[c.postID]
           /\ c.op = "replies" => c.id \in stored /\ ~comments[c.id].deleted
    /\ (Arrives /\ ret'.op \in Listings /\ ~RefusedQuery(ret')) =>
           /\ ret'.kind = "NotFound"
           /\ ret'.page = <<>>
           /\ ret'.op = "list" => ret'.id \notin Posts \/ postDeleted[ret'.id]
           /\ ret'.op = "replies" => ret'.id \notin stored \/ comments[ret'.id].deleted
    /\ (ret'.op \in Listings /\ ret'.kind = "OK") =>
           \E c \in Running : Took(c) /\ c.op = ret'.op

C25_ListingOfMissingIsNotFound == [][C25_ListNotFoundStep]_vars

\* the top-level comments of a soft-deleted post that has a live comment were
\* requested, and the answer is NotFound
C25_Witness ==
    /\ ret.op = "list" /\ ret.kind = "NotFound"
    /\ ret.id \in Posts
    /\ postDeleted[ret.id]
    /\ ListByPost(comments, ret.id) # {}

\* ---- error kinds ----

\* C26 (as stated): every failure reaches the caller as its own kind: a
\* parent on another post and an invalid request as client errors, a missing
\* post, parent or comment as NotFound, a mutation by a non-author as
\* Forbidden; Internal is answered for store failures only, of which no
\* behaviour here has one.
C26_EveryFailureHasItsKind ==
    /\ ret.err \in {"ErrInvalidInput", "ValidationErrors"} => ret.kind = "ValidationFailed"
    /\ IsNotFoundError(ret.err) => ret.kind = "NotFound"
    /\ IsForbiddenError(ret.err) => ret.kind = "Forbidden"
    /\ ret.kind # "Internal"

\* CreateComment with an empty content was refused by the service's validator
\* and answered as an internal error
C26_Witness ==
    /\ ret.op = "create"
    /\ ret.err = "ValidationErrors"
    /\ ret.kind = "Internal"

\* ---- nesting depth ----

\* the step taken is the statement at pc of a CreateComment or DeleteComment call c
Runs(c, pc) == c.pc = pc /\ Took(c)

\* C27: no step depends on the depth of a comment.  Whatever the length of the
\* parent's path, a CreateComment call that finds its parent live and on the
\* requested post goes on to the insert, the insert stores the reply one level
\* below its parent, and the call returns the comment if its author is still
\* live; a DeleteComment call that finds its comment live deletes it; and a
\* reply listing with the default page returns all live replies of its parent.
C27_DepthStep ==
    \A c \in Running :
        /\ (/\ Runs(c, "c_parent")
            /\ c.parentID \in stored
            /\ ~comments[c.parentID].deleted
            /\ comments[c.parentID].postID = c.postID) =>
               [c EXCEPT !.pc = "c_insert",
                         !.threadID = comments[c.parentID].threadID,
                         !.path = Append(comments[c.parentID].path, c.parentID)]
                   \in BagToSet(inflight')
        /\ Runs(c, "c_insert") =>
               /\ c.id \in DOMAIN comments'
               /\ ~comments'[c.id].deleted
               /\ Len(comments'[c.id].path)
                     = IF c.parentID = NULL THEN 1 ELSE Len(comments[c.parentID].path) + 1
        /\ (Runs(c, "c_reread") /\ ~comments[c.id].deleted /\ ~userDeleted[c.userID]) =>
               ret'.err = "nil" /\ ret'.id = c.id
        /\ (Runs(c, "d_delete") /\ ~comments[c.id].deleted) =>
               ret'.err = "nil" /\ comments'[c.id].deleted
        /\ (Runs(c, "r_list") /\ c.limit = 0 /\ c.offset = 0) =>
               ret'.items = {d \in stored : comments[d].parentID = c.id /\ ~comments[d].deleted}

C27_NoStepDependsOnDepth == [][C27_DepthStep]_vars

\* CreateComment has just returned a reply at the greatest depth the table
\* allows: every stored comment is on its path
C27_Witness ==
    /\ CreatedReply
    /\ Len(ret.path) = MaxComments
    /\ Len(comments[ret.parentID].path) = MaxComments - 1

\* ---- atomicity of a statement and its triggers ----

\* the calls that have run their INSERT or UPDATE and have not returned yet
MidCall == {c \in Running : c.pc \in {"c_reread", "u_reread"}}

\* C28: in every reachable state, the states in the middle of CreateComment
\* and DeleteComment calls included, every stored comment's repliesCount is
\* the number of its live replies: no state shows a live reply that its
\* parent does not count, or a soft-deleted reply that is still counted.
C28_CounterMovesWithTheReply ==
    \A p \in stored :
        /\ comments[p].repliesCount = Cardinality({d \in stored : comments[d].parentID = p
                                                                  /\ ~comments[d].deleted})
        /\ \A c \in MidCall :
               (c.op = "create" /\ c.parentID = p) =>
                   c.id \in stored /\ (~comments[c.id].deleted => comments[p].repliesCount >= 1)

\* GetCommentByID has returned a parent while the CreateComment call that
\* inserted its only reply has not returned yet: the reply is counted
C28_Witness ==
    /\ ret.op = "get" /\ ret.err = "nil"
    /\ \E c \in MidCall :
          /\ c.op = "create"
          /\ c.parentID = ret.id
          /\ LiveReplies(ret.id) = {c.id}
          /\ comments[ret.id].repliesCount = 1

\* ---- failed and racing creates ----

\* C29 (as stated): a CreateComment call that returns an error, at whichever
\* of its steps, has stored no comment: the step that returns the error
\* changes no row, and the id the call drew is the id of no stored row (so the
\* call has run no insert and has raised no repliesCount).
C29_FailStep ==
    /\ (Arrives /\ ret'.op = "create" /\ ret'.err # "nil") => comments' = comments
    /\ \A c \in Running :
           (c.op = "create" /\ Took(c) /\ ret'.op = "create" /\ ret'.err # "nil") =>
               /\ comments' = comments
               /\ c.id \notin stored

C29_FailedCreateLeavesNoTrace == [][C29_FailStep]_vars

\* CreateComment has returned an error for a reply that is stored and live
\* and counted by its parent: its author was soft-deleted before the re-read
C29_Witness ==
    /\ ret.op = "create" /\ ret.err = "ErrCommentNotFound"
    /\ ret.id \in stored
    /\ ~comments[ret.id].deleted
    /\ userDeleted[comments[ret.id].createdBy]
    /\ ret.parentID \in stored
    /\ comments[ret.parentID].repliesCount = 1

\* C30 (as stated): when a CreateComment call runs its insert, the post it
\* checked is still live and the parent it checked is still live, and no step
\* raises the repliesCount of a soft-deleted comment.
C30_InsertStep ==
    /\ \A c \in Running :
           Runs(c, "c_insert") =>
               /\ ~postDeleted[c.postID]
               /\ c.parentID # NULL => ~comments[c.parentID].deleted
    /\ \A p \in stored :
           comments'[p].repliesCount > comments[p].repliesCount => ~comments[p].deleted

C30_ChecksHoldAtInsert == [][C30_InsertStep]_vars

\* every request has been received and the one call in progress has just run
\* its insert: the reply is live under a parent that was soft-deleted before
\* the insert, and the deleted parent counts it
C30_Witness ==
    /\ calls = MaxCalls
    /\ ret = NoResult
    /\ \E c \in Running :
          /\ Running = {c}
          /\ c.op = "create" /\ c.pc = "c_reread"
          /\ c.parentID \in stored
          /\ comments[c.parentID].deleted
          /\ deleteOk[c.parentID] = 1
          /\ ~comments[c.id].deleted
          /\ comments[c.parentID].repliesCount = 1

====
